---- MODULE Spec2Model ----
(***************************************************************************)
(* PCSI (src/main.py): canonical S-expression encoder, content model,      *)
(* rule registry and provenance ledger.                                    *)
(*                                                                         *)
(* Text is a sequence of Unicode code points (Python str); the UTF-8 bytes *)
(* of a text are computed by utf8.  Python's None is the value None, which *)
(* is not a text any caller can supply.                                    *)
(***************************************************************************)
EXTENDS Integers, Sequences, FiniteSets, TLC

VARIABLES source_id, rules, inferences, perceptions, now, file, ret,
          calls, arg, res

vars == <<source_id, rules, inferences, perceptions, now, file, ret, calls, arg, res>>
ledger == <<source_id, rules, inferences, perceptions>>
encvars == <<arg, res>>
sysvars == <<source_id, rules, inferences, perceptions, now, file, ret, calls>>

\* ---------------------------------------------------------------- bounds
MaxCalls == 3
MaxRules == 2
MaxInferences == 2
MaxPerceptions == 1
StartTime == 9
MaxTime == 10
MaxStrLen == 3
MaxBodyLen == 2

\* ------------------------------------------------------- string literals
\* "url"
S_url == <<117, 114, 108>>
\* "link"
S_link == <<108, 105, 110, 107>>
\* "paragraph"
S_paragraph == <<112, 97, 114, 97, 103, 114, 97, 112, 104>>
\* "subheading"
S_subheading == <<115, 117, 98, 104, 101, 97, 100, 105, 110, 103>>
\* "caption"
S_caption == <<99, 97, 112, 116, 105, 111, 110>>
\* "image"
S_image == <<105, 109, 97, 103, 101>>
\* "body"
S_body == <<98, 111, 100, 121>>
\* "headline"
S_headline == <<104, 101, 97, 100, 108, 105, 110, 101>>
\* "date"
S_date == <<100, 97, 116, 101>>
\* "author"
S_author == <<97, 117, 116, 104, 111, 114>>
\* "article"
S_article == <<97, 114, 116, 105, 99, 108, 101>>
\* "source"
S_source == <<115, 111, 117, 114, 99, 101>>
\* "timestamp"
S_timestamp == <<116, 105, 109, 101, 115, 116, 97, 109, 112>>
\* "pattern"
S_pattern == <<112, 97, 116, 116, 101, 114, 110>>
\* "script-hash"
S_script_hash == <<115, 99, 114, 105, 112, 116, 45, 104, 97, 115, 104>>
\* "object-type"
S_object_type == <<111, 98, 106, 101, 99, 116, 45, 116, 121, 112, 101>>
\* "script"
S_script == <<115, 99, 114, 105, 112, 116>>
\* "rule"
S_rule == <<114, 117, 108, 101>>
\* "error"
S_error == <<101, 114, 114, 111, 114>>
\* "object-hash"
S_object_hash == <<111, 98, 106, 101, 99, 116, 45, 104, 97, 115, 104>>
\* "object"
S_object == <<111, 98, 106, 101, 99, 116>>
\* "inference"
S_inference == <<105, 110, 102, 101, 114, 101, 110, 99, 101>>
\* "valid"
S_valid == <<118, 97, 108, 105, 100>>
\* "perception"
S_perception == <<112, 101, 114, 99, 101, 112, 116, 105, 111, 110>>
\* "bbc.com"
S_bbc_com == <<98, 98, 99, 46, 99, 111, 109>>
\* "/news/"
S_news == <<47, 110, 101, 119, 115, 47>>
\* "/sport/"
S_sport == <<47, 115, 112, 111, 114, 116, 47>>
\* "CY7Iwrrw5i7MyjV7Zqdwf2Tj0Hb3iCsJF4Sv6jcrUyw="
PlaceholderHash == <<67, 89, 55, 73, 119, 114, 114, 119, 53, 105, 55, 77, 121, 106, 86, 55, 90, 113, 100, 119, 102, 50, 84, 106, 48, 72, 98, 51, 105, 67, 115, 74, 70, 52, 83, 118, 54, 106, 99, 114, 85, 121, 119, 61>>
\* "https?://(www\\.)?bbc\\.com/.*"
DefaultPattern == <<104, 116, 116, 112, 115, 63, 58, 47, 47, 40, 119, 119, 119, 92, 46, 41, 63, 98, 98, 99, 92, 46, 99, 111, 109, 47, 46, 42>>

\* ------------------------------------------------------- Python built-ins
\* None (the str() of it is "None")
None == <<-1>>
S_None == <<78, 111, 110, 101>>
NoneObj == [type |-> None]

\* bool(x) of an Optional[str]
Truthy(s) == s # None /\ s # <<>>

RECURSIVE Digits(_)
Digits(n) == IF n < 10 THEN <<48 + n>> ELSE Digits(n \div 10) \o <<48 + (n % 10)>>

\* str(n) of an int
Str(n) == IF n < 0 THEN <<45>> \o Digits(0 - n) ELSE Digits(n)

\* f"{x}" of an Optional[str]
Format(s) == IF s = None THEN S_None ELSE s

\* sub in s
Contains(sub, s) ==
    \E i \in 0..(Len(s) - Len(sub)) : \A k \in 1..Len(sub) : s[i + k] = sub[k]

\* s.encode('utf-8'), one code point
utf8char(c) ==
    IF c < 128 THEN <<c>>
    ELSE IF c < 2048 THEN <<192 + (c \div 64), 128 + (c % 64)>>
    ELSE IF c < 65536 THEN <<224 + (c \div 4096), 128 + ((c \div 64) % 64), 128 + (c % 64)>>
    ELSE <<240 + (c \div 262144), 128 + ((c \div 4096) % 64), 128 + ((c \div 64) % 64), 128 + (c % 64)>>

\* the bytes of s[lo..hi]
RECURSIVE utf8range(_, _, _)
utf8range(s, lo, hi) ==
    IF lo > hi THEN <<>>
    ELSE IF lo = hi THEN utf8char(s[lo])
    ELSE LET mid == (lo + hi) \div 2
         IN utf8range(s, lo, mid) \o utf8range(s, mid + 1, hi)

utf8(s) == utf8range(s, 1, Len(s))

\* ------------------------------------------------------------ SExpression
create_string(s) ==
    IF s = None \/ s = <<>> THEN <<>>
    ELSE Str(Len(s)) \o <<58>> \o s

create_object(name, content) ==
    IF content = <<>> THEN <<>>
    ELSE <<40>> \o create_string(name) \o content \o <<41>>

\* Stand-in for SHA-256: a 15-bit polynomial digest of the bytes,
\* sum of bytes[i] * 31^(n-i) plus 7 * 31^n, modulo 2^15.
sq(h) == (h * h) % 32768

RECURSIVE pow31(_)
pow31(n) ==
    IF n = 0 THEN 1
    ELSE (sq(pow31(n \div 2)) * (IF n % 2 = 1 THEN 31 ELSE 1)) % 32768

RECURSIVE poly(_, _, _)
poly(bytes, lo, hi) ==
    IF lo > hi THEN 0
    ELSE IF lo = hi THEN bytes[lo]
    ELSE LET mid == (lo + hi) \div 2
         IN (poly(bytes, lo, mid) * pow31(hi - mid) + poly(bytes, mid + 1, hi)) % 32768

digest(bytes) == (7 * pow31(Len(bytes)) + poly(bytes, 1, Len(bytes))) % 32768

b64char(v) ==
    IF v < 26 THEN 65 + v
    ELSE IF v < 52 THEN 97 + (v - 26)
    ELSE IF v < 62 THEN 48 + (v - 52)
    ELSE IF v = 62 THEN 43 ELSE 47

\* base64.b64encode of the two digest bytes
b64encode(d) ==
    LET b1 == d \div 256
        b2 == d % 256
    IN <<b64char(b1 \div 4), b64char((b1 % 4) * 16 + (b2 \div 16)),
         b64char((b2 % 16) * 4), 61>>

hash_sexp(sexp) == b64encode(digest(utf8(sexp)))

\* ---------------------------------------------------------- content model
Link_to_sexp(l) ==
    LET url_expr == create_object(S_url, create_string(l.url))
    IN create_object(S_link, url_expr)

RECURSIVE Paragraph_content_expr(_)
Paragraph_content_expr(content) ==
    IF content = <<>> THEN <<>>
    ELSE LET item == content[1]
         IN (IF item.kind = "str" THEN create_string(item.s) ELSE Link_to_sexp(item))
            \o Paragraph_content_expr(Tail(content))

Paragraph_to_sexp(p) == create_object(S_paragraph, Paragraph_content_expr(p.content))

Subheading_to_sexp(s) == create_object(S_subheading, create_string(s.text))

Image_to_sexp(i) ==
    LET url_expr == create_object(S_url, create_string(i.url))
        caption_expr == create_object(S_caption, create_string(i.caption))
    IN create_object(S_image, url_expr \o caption_expr)

Element_to_sexp(e) ==
    CASE e.kind = "paragraph" -> Paragraph_to_sexp(e)
      [] e.kind = "subheading" -> Subheading_to_sexp(e)
      [] e.kind = "image" -> Image_to_sexp(e)

RECURSIVE ArticleBody_content_expr(_)
ArticleBody_content_expr(elements) ==
    IF elements = <<>> THEN <<>>
    ELSE Element_to_sexp(elements[1]) \o ArticleBody_content_expr(Tail(elements))

ArticleBody_to_sexp(elements) == create_object(S_body, ArticleBody_content_expr(elements))

Article_to_sexp(a) ==
    LET headline_expr == create_object(S_headline, create_string(a.headline))
        date_expr == create_object(S_date, create_string(Str(a.date)))
        author_expr == create_object(S_author, create_string(a.author))
        body_expr == ArticleBody_to_sexp(a.body)
        content == headline_expr \o date_expr \o author_expr \o body_expr
    IN create_object(S_article, content)

\* mutant: the hash covers the body only
ContentObject_hash_body(a) == hash_sexp(ArticleBody_to_sexp(a.body))

ContentObject_hash(a) == hash_sexp(Article_to_sexp(a))

\* constructors of the content model
TextRun(s) == [kind |-> "str", s |-> s]
Link(url) == [kind |-> "link", url |-> url]
Paragraph(content) == [kind |-> "paragraph", content |-> content]
Subheading(text) == [kind |-> "subheading", text |-> text]
Image(url, caption) == [kind |-> "image", url |-> url, caption |-> caption]
Article(headline, date, author, body) ==
    [type |-> S_article, headline |-> headline, date |-> date, author |-> author, body |-> body]

\* ---------------------------------------------------------------- records
Wrap(s) == <<124>> \o Format(s) \o <<124>>

Rule_to_sexp(r) ==
    LET source_expr == create_object(S_source, Wrap(r.source))
        timestamp_expr == create_object(S_timestamp, create_string(Str(r.timestamp)))
        pattern_expr == create_object(S_pattern, create_string(r.pattern))
        script_hash_expr == create_object(S_script_hash, Wrap(r.script_hash))
        object_type_expr == create_object(S_object_type, create_string(r.object_type))
        content == source_expr \o timestamp_expr \o pattern_expr \o script_hash_expr \o object_type_expr
        script_expr == IF Truthy(r.script) THEN create_object(S_script, create_string(r.script)) ELSE <<>>
    IN create_object(S_rule, content \o script_expr)

Inference_to_sexp(i) ==
    LET source_expr == create_object(S_source, Wrap(i.source))
        timestamp_expr == create_object(S_timestamp, create_string(Str(i.timestamp)))
        url_expr == create_object(S_url, create_string(i.url))
        script_hash_expr == create_object(S_script_hash, Wrap(i.script_hash))
        content == source_expr \o timestamp_expr \o url_expr \o script_hash_expr
        outcome_expr ==
            IF Truthy(i.error)
            THEN create_object(S_error, create_string(i.error))
            ELSE create_object(S_object_type, create_string(i.object_type))
                 \o create_object(S_object_hash, Wrap(i.object_hash))
        script_expr == IF Truthy(i.script) THEN create_object(S_script, create_string(i.script)) ELSE <<>>
        object_expr == IF Truthy(i.object) THEN create_object(S_object, i.object) ELSE <<>>
    IN create_object(S_inference, content \o outcome_expr \o script_expr \o object_expr)

Perception_to_sexp(p) ==
    LET source_expr == create_object(S_source, Wrap(p.source))
        timestamp_expr == create_object(S_timestamp, create_string(Str(p.timestamp)))
        url_expr == create_object(S_url, create_string(p.url))
        object_type_expr == create_object(S_object_type, create_string(p.object_type))
        object_hash_expr == create_object(S_object_hash, Wrap(p.object_hash))
        valid_expr == create_object(S_valid, create_string(IF p.valid THEN <<49>> ELSE <<48>>))
        content == source_expr \o timestamp_expr \o url_expr \o object_type_expr \o object_hash_expr \o valid_expr
    IN create_object(S_perception, content)

\* ------------------------------------------------------------ re.match
\* Regular expressions over literals, '\c', '.', groups, and the postfix
\* operators '*' and '?', which is the syntax of every pattern in use.

\* index of the ')' closing the group opened before position i
RECURSIVE GroupEnd(_, _, _)
GroupEnd(p, i, depth) ==
    IF i > Len(p) THEN Len(p)
    ELSE IF p[i] = 92 THEN GroupEnd(p, i + 2, depth)
    ELSE IF p[i] = 40 THEN GroupEnd(p, i + 1, depth + 1)
    ELSE IF p[i] = 41 THEN (IF depth = 0 THEN i ELSE GroupEnd(p, i + 1, depth - 1))
    ELSE GroupEnd(p, i + 1, depth)

\* does p from position i on match a prefix of u from position j on
RECURSIVE match_at(_, _, _, _)
match_at(p, i, u, j) ==
    IF i > Len(p) THEN TRUE
    ELSE IF p[i] = 40
    THEN LET close == GroupEnd(p, i + 1, 0)
             q == IF close < Len(p) THEN p[close + 1] ELSE 0
             g == SubSeq(p, i + 1, close - 1)
             rest == SubSeq(p, close + (IF q \in {42, 63} THEN 2 ELSE 1), Len(p))
         IN CASE q = 63 -> match_at(g \o rest, 1, u, j) \/ match_at(rest, 1, u, j)
              [] q = 42 -> match_at(rest, 1, u, j) \/ match_at(g \o SubSeq(p, i, Len(p)), 1, u, j)
              [] OTHER -> match_at(g \o rest, 1, u, j)
    ELSE LET escaped == p[i] = 92 /\ i < Len(p)
             c == IF escaped THEN p[i + 1] ELSE p[i]
             alen == IF escaped THEN 2 ELSE 1
             q == IF i + alen <= Len(p) THEN p[i + alen] ELSE 0
             next == i + alen + (IF q \in {42, 63} THEN 1 ELSE 0)
             hit == j <= Len(u) /\ (IF ~escaped /\ c = 46 THEN u[j] # 10 ELSE u[j] = c)
         IN CASE q = 42 -> match_at(p, next, u, j) \/ (hit /\ match_at(p, i, u, j + 1))
              [] q = 63 -> match_at(p, next, u, j) \/ (hit /\ match_at(p, next, u, j + 1))
              [] OTHER -> hit /\ match_at(p, next, u, j + 1)

\* re.match(p, u) is not None: p matches at the start of u
re_match(p, u) == match_at(p, 1, u, 1)

\* ------------------------------------------------------------ input sets
\* "https://bbc.com/news/1"
U_bbc == <<104, 116, 116, 112, 115, 58, 47, 47, 98, 98, 99, 46, 99, 111, 109, 47, 110, 101, 119, 115, 47, 49>>
\* "https://m.bbc.com/sport/2"
U_mbbc == <<104, 116, 116, 112, 115, 58, 47, 47, 109, 46, 98, 98, 99, 46, 99, 111, 109, 47, 115, 112, 111, 114, 116, 47, 50>>
\* "https://x/a1"
U_x == <<104, 116, 116, 112, 115, 58, 47, 47, 120, 47, 97, 49>>
URLs == {U_bbc, U_mbbc, U_x}

\* "https://x/a.*"
P_xa == <<104, 116, 116, 112, 115, 58, 47, 47, 120, 47, 97, 46, 42>>
\* "https://x/.*"
P_x == <<104, 116, 116, 112, 115, 58, 47, 47, 120, 47, 46, 42>>
\* "bbc"
P_bbc == <<98, 98, 99>>

\* "h1", "h2"
\* add_rule(pattern, script_hash, object_type, script) as callers invoke it:
\* script hashes "h1", "h2"; script absent or "s"
RuleArgs ==
    { <<P_xa, <<104, 49>>, S_article, None>>,
      <<P_x, <<104, 50>>, S_article, <<115>>>>,
      <<P_bbc, <<104, 49>>, S_article, None>> }

\* "", "a\nb"
ErrorMessages == {<<>>, <<97, 10, 98>>}

\* Article("H", 1700000000, "A", [Subheading("S")])
Doc1 == Article(<<72>>, 1700000000, <<65>>, <<Subheading(<<83>>)>>)
\* Article("T", 5, "", [Paragraph(["x", Link("u")]), Image("i", "")])
Doc2 == Article(<<84>>, 5, <<>>, <<Paragraph(<<TextRun(<<120>>), Link(<<117>>)>>), Image(<<105>>, <<>>)>>)
Documents == {Doc1, Doc2}

\* what extractor.extract(url) does: return a document or raise str(e) = msg
Outcomes == [ok : {TRUE}, doc : Documents] \cup [ok : {FALSE}, msg : ErrorMessages]

\* add_perception(url, object_type, object_hash, valid) as callers invoke it
PerceptionArgs ==
    { <<U_bbc, S_article, ContentObject_hash(Doc1), TRUE>>,
      <<U_x, S_article, <<>>, FALSE>> }
SourceIds == {<<115, 114, 99>>}

\* ------------------------------------------------------------ PCSISystem
Rule(source, timestamp, pattern, script_hash, object_type, script) ==
    [source |-> source, timestamp |-> timestamp, pattern |-> pattern,
     script_hash |-> script_hash, object_type |-> object_type, script |-> script]

Inference(source, timestamp, url, script_hash) ==
    [source |-> source, timestamp |-> timestamp, url |-> url, script_hash |-> script_hash,
     object_type |-> None, object_hash |-> None, error |-> None, script |-> None, object |-> None]

Perception(source, timestamp, url, object_type, object_hash, valid) ==
    [source |-> source, timestamp |-> timestamp, url |-> url,
     object_type |-> object_type, object_hash |-> object_hash, valid |-> valid]

\* What the caller of the last operation saw: the operation and its arguments,
\* the value returned, the calls made to extractor.extract with their outcomes,
\* the level of the last log record, and the operation before it.
Ret(op, args, value, extracted, log) ==
    [op |-> op, args |-> args, value |-> value, extracted |-> extracted, log |-> log,
     prev |-> <<ret.op, ret.log>>]

InitSys ==
    /\ source_id \in SourceIds
    /\ rules = <<>>
    /\ inferences = <<>>
    /\ perceptions = <<>>
    /\ now = StartTime
    /\ file = None
    /\ ret = [op |-> "init", args |-> <<>>, value |-> NoneObj, extracted |-> <<>>,
              log |-> "info", prev |-> <<"none", "none">>]
    /\ calls = 0

InitEnc ==
    /\ arg = [op |-> "none"]
    /\ res = None

Init == InitSys /\ InitEnc

\* mutant: a rule replaces the registered rule of the same pattern
add_rule_replacing(pattern, script_hash, object_type, script) ==
    /\ calls < MaxCalls
    /\ calls' = calls + 1
    /\ Len(rules) < MaxRules
    /\ \E rule \in {Rule(source_id, now, pattern, script_hash, object_type, script)} :
          /\ rules' = IF \E i \in 1..Len(rules) : rules[i].pattern = pattern
                       THEN [i \in 1..Len(rules) |->
                               IF rules[i].pattern = pattern THEN rule ELSE rules[i]]
                       ELSE Append(rules, rule)
          /\ ret' = Ret("add_rule", <<pattern, script_hash, object_type, script>>, rule, <<>>, "info")
    /\ UNCHANGED <<source_id, inferences, perceptions, now, file, arg, res>>

add_rule(pattern, script_hash, object_type, script) ==
    /\ calls < MaxCalls
    /\ calls' = calls + 1
    /\ Len(rules) < MaxRules
    /\ \E rule \in {Rule(source_id, now, pattern, script_hash, object_type, script)} :
          /\ rules' = Append(rules, rule)
          /\ ret' = Ret("add_rule", <<pattern, script_hash, object_type, script>>, rule, <<>>, "info")
    /\ UNCHANGED <<source_id, inferences, perceptions, now, file, arg, res>>

\* mutant: the last matching rule wins
RECURSIVE find_matching_rule_last(_, _)
find_matching_rule_last(rs, url) ==
    IF rs = <<>> THEN NoneObj
    ELSE IF re_match(rs[Len(rs)].pattern, url) THEN rs[Len(rs)]
    ELSE find_matching_rule_last(SubSeq(rs, 1, Len(rs) - 1), url)

\* the first rule of rs whose pattern matches url, or NoneObj
RECURSIVE find_matching_rule(_, _)
find_matching_rule(rs, url) ==
    IF rs = <<>> THEN NoneObj
    ELSE IF re_match(rs[1].pattern, url) THEN rs[1]
    ELSE find_matching_rule(Tail(rs), url)

\* the condition under which process_url creates a default rule
DefaultEligible(url) ==
    Contains(S_bbc_com, url) /\ (Contains(S_news, url) \/ Contains(S_sport, url))

\* the rule process_url registers when no rule matches an eligible url
default_rule == Rule(source_id, now, DefaultPattern, PlaceholderHash, S_article, None)

\* mutant: a url without a rule is recorded as a failed inference
no_rule_recorded(url) ==
    /\ Len(inferences) < MaxInferences
    /\ \E failed \in {[Inference(source_id, now, url, None) EXCEPT !.error = S_rule]} :
          /\ inferences' = Append(inferences, failed)
          /\ ret' = Ret("process_url", <<url>>, <<NoneObj, failed>>, <<>>, "warning")
    /\ UNCHANGED now

\* process_url when no rule is available
no_rule(url) ==
    /\ ret' = Ret("process_url", <<url>>, <<NoneObj, NoneObj>>, <<>>, "warning")
    /\ UNCHANGED <<inferences, now>>

\* the try branch after extract returned content_object
record_success(inference, rule, content_object) ==
    [inference EXCEPT !.object_type = rule.object_type,
                      !.object_hash = ContentObject_hash(content_object)]

\* mutant: repr(e) in place of str(e)
record_failure_repr(inference, e) == [inference EXCEPT !.error = <<39>> \o e \o <<39>>]

\* the except branch, e the str() of the exception
record_failure(inference, e) == [inference EXCEPT !.error = e]

\* process_url from the creation of the inference record on.  extract(url)
\* returns a document or raises; the clock may have advanced when it does.
infer(url, rule) ==
    /\ Len(inferences) < MaxInferences
    /\ \E inference \in {Inference(source_id, now, url, rule.script_hash)}, outcome \in Outcomes :
       \E done \in {IF outcome.ok THEN record_success(inference, rule, outcome.doc)
                                 ELSE record_failure(inference, outcome.msg)} :
          /\ inferences' = Append(inferences, done)
          /\ ret' = Ret("process_url", <<url>>,
                        <<IF outcome.ok THEN outcome.doc ELSE NoneObj, done>>,
                        <<[url |-> url, outcome |-> outcome]>>,
                        IF outcome.ok THEN "info" ELSE "error")
    /\ \E t \in now..MaxTime : now' = t

process_url(url) ==
    /\ calls < MaxCalls
    /\ calls' = calls + 1
    /\ UNCHANGED <<source_id, perceptions, file, arg, res>>
    /\ \E found \in {find_matching_rule(rules, url)} :
          IF found # NoneObj
          THEN /\ UNCHANGED rules
               /\ infer(url, found)
          ELSE IF DefaultEligible(url)
          THEN /\ Len(rules) < MaxRules
               /\ rules' = Append(rules, default_rule)
               /\ infer(url, default_rule)
          ELSE /\ UNCHANGED rules
               /\ no_rule(url)

\* mutant: a perception is refused unless an inference produced that object
add_perception_validated(url, object_type, object_hash, valid) ==
    /\ calls < MaxCalls
    /\ calls' = calls + 1
    /\ Len(perceptions) < MaxPerceptions
    /\ \E perception \in {Perception(source_id, now, url, object_type, object_hash, valid)} :
          IF \E i \in 1..Len(inferences) :
                /\ inferences[i].url = url
                /\ inferences[i].object_type = object_type
                /\ inferences[i].object_hash = object_hash
          THEN /\ perceptions' = Append(perceptions, perception)
               /\ ret' = Ret("add_perception", <<url, object_type, object_hash, valid>>,
                             perception, <<>>, "info")
          ELSE /\ perceptions' = perceptions
               /\ ret' = Ret("add_perception", <<url, object_type, object_hash, valid>>,
                             NoneObj, <<>>, "error")
    /\ UNCHANGED <<source_id, rules, inferences, now, file, arg, res>>

add_perception(url, object_type, object_hash, valid) ==
    /\ calls < MaxCalls
    /\ calls' = calls + 1
    /\ Len(perceptions) < MaxPerceptions
    /\ \E perception \in {Perception(source_id, now, url, object_type, object_hash, valid)} :
          /\ perceptions' = Append(perceptions, perception)
          /\ ret' = Ret("add_perception", <<url, object_type, object_hash, valid>>,
                        perception, <<>>, "info")
    /\ UNCHANGED <<source_id, rules, inferences, now, file, arg, res>>

\* the strings export_records passes to f.write, in order
ExportLines ==
    [i \in 1..Len(rules) |-> Rule_to_sexp(rules[i]) \o <<10>>]
        \o [i \in 1..Len(inferences) |-> Inference_to_sexp(inferences[i]) \o <<10>>]
        \o [i \in 1..Len(perceptions) |-> Perception_to_sexp(perceptions[i]) \o <<10>>]

RECURSIVE Concat(_)
Concat(ss) == IF ss = <<>> THEN <<>> ELSE ss[1] \o Concat(Tail(ss))

\* mutant: the file is opened for appending
export_records_append(io, k) ==
    /\ calls < MaxCalls
    /\ calls' = calls + 1
    /\ \E lines \in {ExportLines}, old \in {IF file = None THEN <<>> ELSE file} :
          CASE io = "ok" ->
                 /\ k = 0
                 /\ file' = old \o Concat(lines)
                 /\ ret' = Ret("export_records", <<>>, None, <<>>, "info")
            [] io = "open" ->
                 /\ k = 0
                 /\ file' = file
                 /\ ret' = Ret("export_records", <<>>, None, <<>>, "error")
            [] io = "write" ->
                 /\ k < Len(lines)
                 /\ file' = old \o Concat(SubSeq(lines, 1, k))
                 /\ ret' = Ret("export_records", <<>>, None, <<>>, "error")
    /\ UNCHANGED <<source_id, rules, inferences, perceptions, now, arg, res>>

\* io = "ok": every write succeeds; "open": open() raises IOError and the file
\* is left as it was; "write": a write raises IOError once k lines are in the
\* file.  The IOError is logged and not raised again.
export_records(io, k) ==
    /\ calls < MaxCalls
    /\ calls' = calls + 1
    /\ \E lines \in {ExportLines} :
          CASE io = "ok" ->
                 /\ k = 0
                 /\ file' = Concat(lines)
                 /\ ret' = Ret("export_records", <<>>, None, <<>>, "info")
            [] io = "open" ->
                 /\ k = 0
                 /\ file' = file
                 /\ ret' = Ret("export_records", <<>>, None, <<>>, "error")
            [] io = "write" ->
                 /\ k < Len(lines)
                 /\ file' = Concat(SubSeq(lines, 1, k))
                 /\ ret' = Ret("export_records", <<>>, None, <<>>, "error")
    /\ UNCHANGED <<source_id, rules, inferences, perceptions, now, arg, res>>

AddRule ==
    \E a \in RuleArgs : add_rule(a[1], a[2], a[3], a[4])

ProcessUrl ==
    \E url \in URLs : process_url(url)

AddPerception ==
    \E a \in PerceptionArgs : add_perception(a[1], a[2], a[3], a[4])

ExportRecords ==
    \E io \in {"ok", "open", "write"}, k \in 0..(Len(rules) + Len(inferences) + Len(perceptions)) :
        export_records(io, k)

Next == AddRule \/ ProcessUrl \/ AddPerception \/ ExportRecords

Spec == Init /\ [][Next]_vars

\* ------------------------------------------------- the encoder on its own
\* 'a', ':', U+00E9, U+20AC, U+1F600: one to four bytes in UTF-8
Alphabet == {97, 58, 233, 8364, 128512}
Texts == UNION {[1..n -> Alphabet] : n \in 0..MaxStrLen}
ShortTexts == UNION {[1..n -> Alphabet] : n \in 0..1}
Names == {<<>>, None, S_url, <<233>>}
Contents == {create_string(s) : s \in ShortTexts} \cup {Wrap(<<>>)}

EncCreateString ==
    \E s \in Texts \cup {None} :
        /\ arg' = [op |-> "create_string", s |-> s]
        /\ res' = create_string(s)
        /\ UNCHANGED sysvars

EncCreateObject ==
    \E name \in Names, content \in Contents :
        /\ arg' = [op |-> "create_object", name |-> name, content |-> content]
        /\ res' = create_object(name, content)
        /\ UNCHANGED sysvars

EncImage ==
    \E url \in ShortTexts, caption \in ShortTexts \cup {None} :
        /\ arg' = [op |-> "Image", url |-> url, caption |-> caption]
        /\ res' = Image_to_sexp(Image(url, caption))
        /\ UNCHANGED sysvars

NextEnc == EncCreateString \/ EncCreateObject \/ EncImage

SpecEnc == Init /\ [][NextEnc]_vars

\* ------------------------------------------- the content model on its own
\* text runs "x", "y" and links to "u", "v" in every arrangement of up to two
ParagraphContents ==
    { <<>>, <<TextRun(<<120>>)>>, <<TextRun(<<121>>)>>, <<Link(<<117>>)>>, <<Link(<<118>>)>>,
      <<TextRun(<<120>>), Link(<<117>>)>>, <<Link(<<117>>), TextRun(<<120>>)>> }

\* Paragraph(...), Subheading("S"), Subheading(""), Image("i"), Image("i", "c"),
\* Image("j")
Elements ==
    {Paragraph(c) : c \in ParagraphContents}
        \cup {Subheading(<<83>>), Subheading(<<>>)}
        \cup {Image(<<105>>, <<>>), Image(<<105>>, <<99>>), Image(<<106>>, <<>>)}

Bodies == UNION {[1..n -> Elements] : n \in 0..MaxBodyLen}

\* headline "H" or "T", date 5 or 51, author "A" or ""
Articles ==
    {Article(h, d, a, <<>>) : h \in {<<72>>, <<84>>}, d \in {5, 51}, a \in {<<65>>, <<>>}}
        \cup {Article(<<72>>, 5, <<65>>, b) : b \in Bodies}

\* two documents are canonicalized, once
DocCanonicalize ==
    /\ arg.op = "none"
    /\ \E a \in Articles, b \in Articles :
          /\ arg' = [op |-> "Article", a |-> a, b |-> b]
          /\ res' = <<Article_to_sexp(a), Article_to_sexp(b)>>
    /\ UNCHANGED sysvars

NextDoc == DocCanonicalize

SpecDoc == Init /\ [][NextDoc]_vars

\* ---------------------------------------------------------------- claims
\* the step just taken is a call of op
Step(op) == calls' = calls + 1 /\ ret'.op = op

\* positions of the rules of rs whose pattern matches url
Matching(rs, url) == {i \in 1..Len(rs) : re_match(rs[i].pattern, url)}

Min(S) == CHOOSE x \in S : \A y \in S : x <= y

\* p has no regular-expression operator in it
IsLiteral(p) == \A i \in 1..Len(p) : p[i] \notin {40, 41, 42, 46, 63, 92}

IsPrefix(p, u) == Len(p) <= Len(u) /\ SubSeq(u, 1, Len(p)) = p

\* C1: when extract raises with message m, process_url returns (None, inference)
\* with inference.error = m and object_type, object_hash unset; extract was
\* called once, and that inference is the one record appended to inferences.
C1_FailureRecorded ==
    [][(Step("process_url") /\ ret'.extracted # <<>> /\ ~ret'.extracted[1].outcome.ok) =>
         LET m == ret'.extracted[1].outcome.msg
             inf == ret'.value[2]
         IN /\ Len(ret'.extracted) = 1
            /\ ret'.value[1] = NoneObj
            /\ inf.error = m
            /\ inf.object_type = None
            /\ inf.object_hash = None
            /\ inferences' = Append(inferences, inf)]_vars

C1_Witness ==
    /\ ret.op = "process_url"
    /\ ret.extracted # <<>>
    /\ ~ret.extracted[1].outcome.ok
    /\ ret.extracted[1].outcome.msg = <<97, 10, 98>>
    /\ ret.value[2].error = <<97, 10, 98>>
    /\ inferences[Len(inferences)] = ret.value[2]

\* C2: when extract returns document D for a url resolved to rule R,
\* process_url returns (D, inference) with the object_type and script_hash of R,
\* the url, no error and object_hash = hash(canonical form of D), and that
\* inference is the one record appended to inferences.
C2_SuccessRecorded ==
    [][(Step("process_url") /\ ret'.extracted # <<>> /\ ret'.extracted[1].outcome.ok) =>
         LET D == ret'.extracted[1].outcome.doc
             url == ret'.args[1]
             found == find_matching_rule(rules, url)
             R == IF found # NoneObj THEN found ELSE rules'[Len(rules')]
             inf == ret'.value[2]
         IN /\ Len(ret'.extracted) = 1
            /\ ret'.extracted[1].url = url
            /\ ret'.value[1] = D
            /\ inf.object_type = R.object_type
            /\ inf.script_hash = R.script_hash
            /\ inf.url = url
            /\ inf.error = None
            /\ inf.object_hash = hash_sexp(Article_to_sexp(D))
            /\ inferences' = Append(inferences, inf)]_vars

C2_Witness ==
    /\ ret.op = "process_url"
    /\ ret.extracted # <<>>
    /\ ret.extracted[1].outcome.ok
    /\ ret.value[1] = Doc2
    /\ ret.value[2].object_hash = hash_sexp(Article_to_sexp(Doc2))
    /\ ret.value[2].script_hash = <<104, 50>>
    /\ inferences[Len(inferences)] = ret.value[2]

\* C3: when no registered rule matches the url and the url is not eligible for
\* the default rule, process_url returns (None, None), does not call extract and
\* leaves rules, inferences and perceptions as they were.
C3_NoRuleNoRecord ==
    [][(Step("process_url") /\ Matching(rules, ret'.args[1]) = {}
          /\ ~DefaultEligible(ret'.args[1])) =>
         /\ ret'.value = <<NoneObj, NoneObj>>
         /\ ret'.extracted = <<>>
         /\ UNCHANGED <<rules, inferences, perceptions>>]_vars

C3_Witness ==
    /\ ret.op = "process_url"
    /\ ret.value = <<NoneObj, NoneObj>>
    /\ rules # <<>>
    /\ Matching(rules, ret.args[1]) = {}

\* C4: find_matching_rule returns the matching rule of least position, or none
\* when no rule matches, a pattern matching only at the start of the url; the
\* inference process_url records carries the script_hash of that rule, and the
\* registry is left as it was when a rule is found.
C4_FirstMatchWins ==
    /\ [](\A url \in URLs :
            /\ find_matching_rule(rules, url) =
                  IF Matching(rules, url) = {} THEN NoneObj
                  ELSE rules[Min(Matching(rules, url))]
            /\ \A i \in 1..Len(rules) :
                  IsLiteral(rules[i].pattern) =>
                     (re_match(rules[i].pattern, url) <=> IsPrefix(rules[i].pattern, url)))
    /\ [][(Step("process_url") /\ Matching(rules, ret'.args[1]) # {}) =>
            /\ rules' = rules
            /\ ret'.value[2].script_hash =
                  rules[Min(Matching(rules, ret'.args[1]))].script_hash]_vars

C4_Witness ==
    /\ ret.op = "process_url"
    /\ Len(rules) = 2
    /\ Matching(rules, ret.args[1]) = {1, 2}
    /\ rules[1].script_hash # rules[2].script_hash
    /\ ret.value[2].script_hash = rules[1].script_hash

\* the rules process_url synthesized (no caller registers the placeholder hash)
SynthesizedDefaults ==
    {i \in 1..Len(rules) :
        rules[i].pattern = DefaultPattern /\ rules[i].script_hash = PlaceholderHash}

\* C5: default-rule synthesis fires once: the registry never holds more than
\* one synthesized default rule.
C5_OneDefaultRule == Cardinality(SynthesizedDefaults) <= 1

\* the canonical forms of the records, in export order
Records ==
    [i \in 1..Len(rules) |-> Rule_to_sexp(rules[i])]
        \o [i \in 1..Len(inferences) |-> Inference_to_sexp(inferences[i])]
        \o [i \in 1..Len(perceptions) |-> Perception_to_sexp(perceptions[i])]

Newlines(text) == {i \in 1..Len(text) : text[i] = 10}

\* C6: after export_records completed, the file has exactly
\* len(rules) + len(inferences) + len(perceptions) lines, the canonical forms of
\* the rules, the inferences and the perceptions in append order, one per line.
C6_OneRecordPerLine ==
    (ret.op = "export_records" /\ ret.log = "info") =>
        /\ Cardinality(Newlines(file)) = Len(rules) + Len(inferences) + Len(perceptions)
        /\ \A j \in 1..Len(Records) : Newlines(Records[j]) = {}
        /\ file = Concat([j \in 1..Len(Records) |-> Records[j] \o <<10>>])

\* C7: export_records leaves rules, inferences and perceptions as they were,
\* and an export that completes right after one that completed leaves the file
\* byte for byte as it was.
C7_ExportIdempotent ==
    [][Step("export_records") =>
         /\ UNCHANGED <<rules, inferences, perceptions>>
         /\ (ret.op = "export_records" /\ ret.log = "info" /\ ret'.log = "info") =>
               file' = file]_vars

C7_Witness ==
    /\ ret.op = "export_records"
    /\ ret.log = "info"
    /\ ret.prev = <<"export_records", "info">>
    /\ inferences # <<>>
    /\ file = Concat(ExportLines)

\* C8: create_string(s) is the decimal count of the UTF-8 bytes of s, ':' and
\* s, and empty for the empty string and for None.
C8_BytePrefix ==
    arg.op = "create_string" =>
        res = IF arg.s = None \/ arg.s = <<>> THEN <<>>
              ELSE Str(Len(utf8(arg.s))) \o <<58>> \o arg.s

\* sexp has a group called name in it
HasGroup(name, sexp) == Contains(<<40>> \o create_string(name), sexp)

Absent(v) == v = None \/ v = <<>>

\* C9: create_object gives the empty sequence for empty content, so in the
\* canonical form of every record a field that is empty or absent contributes
\* no group.
C9_EmptyFieldsVanish ==
    /\ \A i \in 1..Len(rules) :
          /\ Absent(rules[i].script_hash) => ~HasGroup(S_script_hash, Rule_to_sexp(rules[i]))
          /\ Absent(rules[i].script) => ~HasGroup(S_script, Rule_to_sexp(rules[i]))
    /\ \A i \in 1..Len(inferences) :
          /\ Absent(inferences[i].error) => ~HasGroup(S_error, Inference_to_sexp(inferences[i]))
          /\ Absent(inferences[i].object_type) =>
                ~HasGroup(S_object_type, Inference_to_sexp(inferences[i]))
    /\ \A i \in 1..Len(perceptions) :
          /\ Absent(perceptions[i].object_type) =>
                ~HasGroup(S_object_type, Perception_to_sexp(perceptions[i]))
          /\ Absent(perceptions[i].object_hash) =>
                ~HasGroup(S_object_hash, Perception_to_sexp(perceptions[i]))

IsFailure(i) == i.error # None /\ i.object_type = None /\ i.object_hash = None

IsSuccess(i) == i.error = None /\ i.object_type # None /\ i.object_hash # None

\* C11: every inference in the ledger is a Failure (error set, object_type and
\* object_hash unset) or a Success (object_type and object_hash set, error
\* unset), and its canonical form has the groups of that branch and no other:
\* 'error' alone for a Failure, 'object-type' and 'object-hash' alone for a
\* Success, whatever the message of the failure.
C11_OneBranchEmitted ==
    \A i \in 1..Len(inferences) :
        \E sexp \in {Inference_to_sexp(inferences[i])} :
            /\ IsFailure(inferences[i]) \/ IsSuccess(inferences[i])
            /\ IsFailure(inferences[i]) =>
                  /\ HasGroup(S_error, sexp)
                  /\ ~HasGroup(S_object_type, sexp)
                  /\ ~HasGroup(S_object_hash, sexp)
            /\ IsSuccess(inferences[i]) =>
                  /\ ~HasGroup(S_error, sexp)
                  /\ HasGroup(S_object_type, sexp)
                  /\ HasGroup(S_object_hash, sexp)

C13_CanonicalInjective ==
    (arg.op = "Article" /\ arg.a # arg.b) => res[1] # res[2]

\* C14: when export_records fails to write, its caller is told: what the call
\* gives back differs from the None a completed export returns; rules,
\* inferences and perceptions are left as they were; and export_records can be
\* called again, a completed call writing the whole ledger.
C14_ExportFailureSurfaced ==
    /\ []((ret.op = "export_records" /\ ret.log = "error" /\ calls < MaxCalls) =>
            ENABLED export_records("ok", 0))
    /\ [][/\ (Step("export_records") /\ ret'.log = "error") =>
               /\ ret'.value # None
               /\ UNCHANGED <<rules, inferences, perceptions>>
          /\ (Step("export_records") /\ ret.op = "export_records" /\ ret.log = "error"
                /\ ret'.log = "info") =>
               file' = Concat(ExportLines)]_vars
====
